---------------------------- MODULE Spec2Model ----------------------------
(***************************************************************************)
(* q2-diversity-lib: plugin_setup.py.                                      *)
(*                                                                         *)
(* The module builds one Plugin object and makes twelve                    *)
(* plugin.methods.register_function calls against it.  Each call binds a   *)
(* function reference to an input schema, a parameter schema, an output    *)
(* schema, descriptions, examples and citations.  The plugin framework     *)
(* later invokes a registered method: it checks every supplied input and   *)
(* parameter against the registered schema and, when all of them are       *)
(* members of their declared types, calls the registered function.         *)
(***************************************************************************)
EXTENDS Integers, Sequences, FiniteSets, TLC

VARIABLES pc, plugin, methods, cores, result, call, external

vars == <<pc, plugin, methods, cores, result, call, external>>

(***************************************************************************)
(* Bounds of the model.                                                    *)
(***************************************************************************)
\* largest integer tried for an Int parameter (threads, n_jobs, pseudocount)
MaxInt == 3
\* largest number of physical cores of a host
MaxCores == 2
\* longest list tried for a List input or parameter
MaxList == 2
\* Float values tried are the fractions k/Den, k in -1 .. Den+1
Den == 2

(***************************************************************************)
(* Values a caller can supply.  A number is the fraction num/den, so that  *)
(* Float parameters have values strictly between 0 and 1.                  *)
(***************************************************************************)
IntV(k) == [t |-> "Int", num |-> k, den |-> 1, s |-> "", b |-> FALSE]

FloatV(n, d) == [t |-> "Float", num |-> n, den |-> d, s |-> "", b |-> FALSE]

StrV(str) == [t |-> "Str", num |-> 0, den |-> 1, s |-> str, b |-> FALSE]

BoolV(bool) == [t |-> "Bool", num |-> 0, den |-> 1, s |-> "", b |-> bool]

\* Python's None: the value of a parameter the caller left out
NoneV == [t |-> "None", num |-> 0, den |-> 1, s |-> "", b |-> FALSE]

ListV(items) == [t |-> "List", items |-> items]

\* an artifact of semantic type name[field], e.g. FeatureTable[Frequency]
ArtifactV(name, field) == [t |-> "Artifact", name |-> name, field |-> field]

(***************************************************************************)
(* The framework's type-constraint vocabulary (qiime2.plugin, q2_types).   *)
(* A type expression is the set of its union members: A | B is A \cup B.   *)
(***************************************************************************)
\* a range end that is None in the source
None == [has |-> FALSE, n |-> 0]

Bound(n) == [has |-> TRUE, n |-> n]

\* Range(start, end, inclusive_start=True, inclusive_end=False)
Range(start, end, inclusive_start, inclusive_end) ==
    [tag |-> "Range", start |-> start, end |-> end,
     inclusive_start |-> inclusive_start, inclusive_end |-> inclusive_end,
     choices |-> {}]

Choices(choices) ==
    [tag |-> "Choices", start |-> None, end |-> None,
     inclusive_start |-> TRUE, inclusive_end |-> FALSE, choices |-> choices]

NoPredicate ==
    [tag |-> "None", start |-> None, end |-> None,
     inclusive_start |-> TRUE, inclusive_end |-> FALSE, choices |-> {}]

\* a primitive type without a predicate
Primitive(base) == {[collection |-> "", base |-> base, pred |-> NoPredicate]}

\* qiime2.plugin.Int (Int itself is the set of integers here)
Int_ == Primitive("Int")

Str == Primitive("Str")

Float == Primitive("Float")

Bool == Primitive("Bool")

\* T % predicate
Refine(T, pred) == {[m EXCEPT !.pred = pred] : m \in T}

\* List[T]
List(T) == {[m EXCEPT !.collection = "List"] : m \in T}

\* semantic types: name[field | field | ...]
Semantic(name, fields) ==
    {[collection |-> "", name |-> name, field |-> f] : f \in fields}

FeatureTable(fields) == Semantic("FeatureTable", fields)

Phylogeny(fields) == Semantic("Phylogeny", fields)

SampleData(fields) == Semantic("SampleData", fields)

DistanceMatrix == Semantic("DistanceMatrix", {""})

Frequency == {"Frequency"}

RelativeFrequency == {"RelativeFrequency"}

PresenceAbsence == {"PresenceAbsence"}

Rooted == {"Rooted"}

AlphaDiversity == {"AlphaDiversity"}

(***************************************************************************)
(* Names imported by plugin_setup.py whose values are set elsewhere.       *)
(***************************************************************************)
\* alpha.METRICS['NONPHYLO']['UNIMPL']
alpha_METRICS_NONPHYLO_UNIMPL == {"chao1", "simpson"}

\* beta.METRICS['NONPHYLO']['UNIMPL']
beta_METRICS_NONPHYLO_UNIMPL == {"euclidean", "aitchison"}

\* beta.METRICS['PHYLO']['UNIMPL']
beta_METRICS_PHYLO_UNIMPL == {"generalized_unifrac", "weighted_normalized_unifrac"}

\* unifrac._meta.CONSOLIDATIONS
CONSOLIDATIONS == {"skipping_missing_values", "missing_zero"}

(***************************************************************************)
(* The plugin descriptor (version is alpha/beta's package version).        *)
(***************************************************************************)
Plugin ==
    [name |-> "diversity-lib",
     version |-> "__version__",
     website |-> "https://github.com/qiime2/q2-diversity-lib",
     short_description |-> "Plugin for computing community diversity.",
     package |-> "q2_diversity_lib"]

n_jobs_description == "The number of concurrent jobs to use ... May not exceed the number of available physical cores."

threads_description == "The number of CPU threads to use ... May not exceed the number of available physical cores."

(***************************************************************************)
(* The arguments of the twelve register_function calls, in source order.   *)
(* inputs, parameters and the description dictionaries are sequences of    *)
(* <<name, value>> pairs in the order the source writes them; None is the  *)
(* empty sequence.  Description texts are abbreviated.                     *)
(***************************************************************************)
\* faith_pd's parameters had the range been written from 0
faith_pd_parameters_from_zero ==
    << <<"threads", Refine(Int_, Range(Bound(0), None, TRUE, FALSE))
                    \cup Refine(Str, Choices({"auto"}))>> >>

faith_pd_parameters ==
    << <<"threads", Refine(Int_, Range(Bound(1), None, TRUE, FALSE))
                    \cup Refine(Str, Choices({"auto"}))>> >>

faith_pd_registration ==
    [function |-> "alpha.faith_pd",
     inputs |-> << <<"table", FeatureTable(Frequency \cup RelativeFrequency
                                           \cup PresenceAbsence)>>,
                   <<"phylogeny", Phylogeny(Rooted)>> >>,
     parameters |-> faith_pd_parameters,
     outputs |-> << <<"vector", SampleData(AlphaDiversity)>> >>,
     input_descriptions |-> << <<"table", "The feature table ...">>,
                               <<"phylogeny", "Phylogenetic tree ...">> >>,
     parameter_descriptions |-> << <<"threads", threads_description>> >>,
     output_descriptions |-> << <<"vector", "Vector containing ...">> >>,
     name |-> "Faith's Phylogenetic Diversity",
     examples |-> {"faith_pd_example"},
     citations |-> <<"faith1992conservation", "armstrong2021faithspd">>]

observed_features_registration ==
    [function |-> "alpha.observed_features",
     inputs |-> << <<"table", FeatureTable(Frequency \cup RelativeFrequency
                                           \cup PresenceAbsence)>> >>,
     parameters |-> <<>>,
     outputs |-> << <<"vector", SampleData(AlphaDiversity)>> >>,
     input_descriptions |-> << <<"table", "The feature table ...">> >>,
     parameter_descriptions |-> <<>>,
     output_descriptions |-> << <<"vector", "Vector containing ...">> >>,
     name |-> "Observed Features",
     examples |-> {"observed_features_example"},
     citations |-> <<>>]

\* pielou_evenness's inputs had the table type of observed_features been copied
pielou_evenness_inputs_with_presence_absence ==
    << <<"table", FeatureTable(Frequency \cup RelativeFrequency
                               \cup PresenceAbsence)>> >>

pielou_evenness_inputs ==
    << <<"table", FeatureTable(Frequency \cup RelativeFrequency)>> >>

pielou_evenness_registration ==
    [function |-> "alpha.pielou_evenness",
     inputs |-> pielou_evenness_inputs,
     parameters |-> << <<"drop_undefined_samples", Bool>> >>,
     outputs |-> << <<"vector", SampleData(AlphaDiversity)>> >>,
     input_descriptions |-> << <<"table", "The feature table ...">> >>,
     parameter_descriptions |->
         << <<"drop_undefined_samples", "Samples with fewer than two ...">> >>,
     output_descriptions |-> << <<"vector", "Vector containing ...">> >>,
     name |-> "Pielou's Evenness",
     examples |-> {"pielou_evenness_example", "pielou_drop_example"},
     citations |-> <<"pielou1966measurement">>]

shannon_entropy_registration ==
    [function |-> "alpha.shannon_entropy",
     inputs |-> << <<"table", FeatureTable(Frequency \cup RelativeFrequency)>> >>,
     parameters |-> << <<"drop_undefined_samples", Bool>> >>,
     outputs |-> << <<"vector", SampleData(AlphaDiversity)>> >>,
     input_descriptions |-> << <<"table", "The feature table ...">> >>,
     parameter_descriptions |->
         << <<"drop_undefined_samples", "Samples with no observed ...">> >>,
     output_descriptions |-> << <<"vector", "Vector containing ...">> >>,
     name |-> "Shannon's Entropy",
     examples |-> {"shannon_entropy_example", "shannon_drop_example"},
     citations |-> <<"shannon1948communication">>]

\* bray_curtis's outputs had the alpha methods' output been copied
bray_curtis_outputs_vector == << <<"vector", SampleData(AlphaDiversity)>> >>

bray_curtis_outputs == << <<"distance_matrix", DistanceMatrix>> >>

bray_curtis_registration ==
    [function |-> "beta.bray_curtis",
     inputs |-> << <<"table", FeatureTable(Frequency \cup RelativeFrequency)>> >>,
     parameters |->
         << <<"n_jobs", Refine(Int_, Range(Bound(1), None, TRUE, FALSE))
                        \cup Refine(Str, Choices({"auto"}))>> >>,
     outputs |-> bray_curtis_outputs,
     input_descriptions |-> << <<"table", "The feature table ...">> >>,
     parameter_descriptions |-> << <<"n_jobs", n_jobs_description>> >>,
     output_descriptions |->
         << <<"distance_matrix", "Distance matrix for Bray-Curtis ...">> >>,
     name |-> "Bray-Curtis Dissimilarity",
     examples |-> {"bray_curtis_example", "bray_curtis_n_jobs_example",
                   "bray_curtis_auto_jobs_example"},
     citations |-> <<"sorensen1948method">>]

jaccard_registration ==
    [function |-> "beta.jaccard",
     inputs |-> << <<"table", FeatureTable(Frequency \cup RelativeFrequency
                                           \cup PresenceAbsence)>> >>,
     parameters |->
         << <<"n_jobs", Refine(Int_, Range(Bound(1), None, TRUE, FALSE))
                        \cup Refine(Str, Choices({"auto"}))>> >>,
     outputs |-> << <<"distance_matrix", DistanceMatrix>> >>,
     input_descriptions |-> << <<"table", "The feature table ...">> >>,
     parameter_descriptions |-> << <<"n_jobs", n_jobs_description>> >>,
     output_descriptions |->
         << <<"distance_matrix", "Distance matrix for Jaccard index">> >>,
     name |-> "Jaccard Distance",
     examples |-> {"jaccard_example", "jaccard_n_jobs_example",
                   "jaccard_auto_jobs_example"},
     citations |-> <<"jaccard1908nouvelles">>]

unweighted_unifrac_registration ==
    [function |-> "beta.unweighted_unifrac",
     inputs |-> << <<"table", FeatureTable(Frequency \cup RelativeFrequency
                                           \cup PresenceAbsence)>>,
                   <<"phylogeny", Phylogeny(Rooted)>> >>,
     parameters |->
         << <<"threads", Refine(Int_, Range(Bound(1), None, TRUE, FALSE))
                         \cup Refine(Str, Choices({"auto"}))>>,
            <<"bypass_tips", Bool>> >>,
     outputs |-> << <<"distance_matrix", DistanceMatrix>> >>,
     input_descriptions |-> << <<"table", "The feature table ...">>,
                               <<"phylogeny", "Phylogenetic tree ...">> >>,
     parameter_descriptions |-> << <<"threads", threads_description>>,
                                   <<"bypass_tips", "In a bifurcating tree ...">> >>,
     output_descriptions |->
         << <<"distance_matrix", "Distance matrix for Unweighted Unifrac.">> >>,
     name |-> "Unweighted Unifrac",
     examples |-> {"u_u_example", "u_u_n_threads_example",
                   "u_u_auto_threads_example", "u_u_bypass_tips_example"},
     citations |-> <<"lozupone2005unifrac", "lozupone2007unifrac",
                     "hamady2010unifrac", "lozupone2011unifrac",
                     "mcdonald2018unifrac">>]

weighted_unifrac_registration ==
    [function |-> "beta.weighted_unifrac",
     inputs |-> << <<"table", FeatureTable(Frequency \cup RelativeFrequency)>>,
                   <<"phylogeny", Phylogeny(Rooted)>> >>,
     parameters |->
         << <<"threads", Refine(Int_, Range(Bound(1), None, TRUE, FALSE))
                         \cup Refine(Str, Choices({"auto"}))>>,
            <<"bypass_tips", Bool>> >>,
     outputs |-> << <<"distance_matrix", DistanceMatrix>> >>,
     input_descriptions |-> << <<"table", "The feature table ...">>,
                               <<"phylogeny", "Phylogenetic tree ...">> >>,
     parameter_descriptions |-> << <<"threads", threads_description>>,
                                   <<"bypass_tips", "In a bifurcating tree ...">> >>,
     output_descriptions |->
         << <<"distance_matrix", "Distance matrix for Unweighted Unifrac.">> >>,
     name |-> "Weighted Unifrac",
     examples |-> {"w_u_example", "w_u_n_threads_example",
                   "w_u_auto_threads_example", "w_u_bypass_tips_example"},
     citations |-> <<"lozupone2005unifrac", "lozupone2007unifrac",
                     "hamady2010unifrac", "lozupone2011unifrac",
                     "mcdonald2018unifrac">>]

alpha_passthrough_registration ==
    [function |-> "alpha.alpha_passthrough",
     inputs |-> << <<"table", FeatureTable(Frequency)>> >>,
     parameters |->
         << <<"metric", Refine(Str, Choices(alpha_METRICS_NONPHYLO_UNIMPL))>> >>,
     outputs |-> << <<"vector", SampleData(AlphaDiversity)>> >>,
     input_descriptions |-> << <<"table", "The feature table ...">> >>,
     parameter_descriptions |->
         << <<"metric", "The alpha diversity metric to be computed.">> >>,
     output_descriptions |-> << <<"vector", "Vector containing ...">> >>,
     name |-> "Alpha Passthrough (non-phylogenetic)",
     examples |-> {"alpha_passthrough_example"},
     citations |-> <<>>]

\* beta_passthrough's descriptions without the one for pseudocount
beta_passthrough_parameter_descriptions_without_pseudocount ==
    << <<"metric", "The beta diversity metric to be computed.">>,
       <<"n_jobs", n_jobs_description>> >>

beta_passthrough_parameter_descriptions ==
    << <<"metric", "The beta diversity metric to be computed.">>,
       <<"pseudocount", "A pseudocount to handle zeros ...">>,
       <<"n_jobs", n_jobs_description>> >>

\* beta_passthrough's parameters had the pseudocount range been written from 0
beta_passthrough_parameters_pseudocount_from_zero ==
    << <<"metric", Refine(Str, Choices(beta_METRICS_NONPHYLO_UNIMPL))>>,
       <<"pseudocount", Refine(Int_, Range(Bound(0), None, TRUE, FALSE))>>,
       <<"n_jobs", Refine(Int_, Range(Bound(1), None, TRUE, FALSE))
                   \cup Refine(Str, Choices({"auto"}))>> >>

beta_passthrough_parameters ==
    << <<"metric", Refine(Str, Choices(beta_METRICS_NONPHYLO_UNIMPL))>>,
       <<"pseudocount", Refine(Int_, Range(Bound(1), None, TRUE, FALSE))>>,
       <<"n_jobs", Refine(Int_, Range(Bound(1), None, TRUE, FALSE))
                   \cup Refine(Str, Choices({"auto"}))>> >>

beta_passthrough_registration ==
    [function |-> "beta.beta_passthrough",
     inputs |-> << <<"table", FeatureTable(Frequency)>> >>,
     parameters |-> beta_passthrough_parameters,
     outputs |-> << <<"distance_matrix", DistanceMatrix>> >>,
     input_descriptions |-> << <<"table", "The feature table ...">> >>,
     parameter_descriptions |-> beta_passthrough_parameter_descriptions,
     output_descriptions |->
         << <<"distance_matrix", "The resulting distance matrix.">> >>,
     name |-> "Beta Passthrough (non-phylogenetic)",
     examples |-> {"beta_passthrough_example",
                   "beta_passthrough_n_jobs_example",
                   "beta_passthrough_auto_jobs_example",
                   "beta_passthrough_pseudocount_example"},
     citations |-> <<>>]

\* beta_phylogenetic_passthrough's parameters had the metric choices been
\* those of beta_passthrough
beta_phylogenetic_passthrough_parameters_nonphylo_metric ==
    << <<"metric", Refine(Str, Choices(beta_METRICS_NONPHYLO_UNIMPL))>>,
       <<"threads", Refine(Int_, Range(Bound(1), None, TRUE, FALSE))
                    \cup Refine(Str, Choices({"auto"}))>>,
       <<"variance_adjusted", Bool>>,
       <<"alpha", Refine(Float, Range(Bound(0), Bound(1), TRUE, TRUE))>>,
       <<"bypass_tips", Bool>> >>

beta_phylogenetic_passthrough_parameters ==
    << <<"metric", Refine(Str, Choices(beta_METRICS_PHYLO_UNIMPL))>>,
       <<"threads", Refine(Int_, Range(Bound(1), None, TRUE, FALSE))
                    \cup Refine(Str, Choices({"auto"}))>>,
       <<"variance_adjusted", Bool>>,
       <<"alpha", Refine(Float, Range(Bound(0), Bound(1), TRUE, TRUE))>>,
       <<"bypass_tips", Bool>> >>

beta_phylogenetic_passthrough_registration ==
    [function |-> "beta.beta_phylogenetic_passthrough",
     inputs |-> << <<"table", FeatureTable(Frequency)>>,
                   <<"phylogeny", Phylogeny(Rooted)>> >>,
     parameters |-> beta_phylogenetic_passthrough_parameters,
     outputs |-> << <<"distance_matrix", DistanceMatrix>> >>,
     input_descriptions |-> << <<"table", "The feature table ...">>,
                               <<"phylogeny", "Phylogenetic tree ...">> >>,
     parameter_descriptions |->
         << <<"metric", "The beta diversity metric to be computed.">>,
            <<"threads", threads_description>>,
            <<"variance_adjusted", "Perform variance adjustment ...">>,
            <<"alpha", "This parameter is only used when ...">>,
            <<"bypass_tips", "In a bifurcating tree ...">> >>,
     output_descriptions |->
         << <<"distance_matrix", "The resulting distance matrix.">> >>,
     name |-> "Beta Phylogenetic Passthrough",
     examples |-> {"beta_phylo_passthrough_example",
                   "beta_phylo_passthrough_n_threads_example",
                   "beta_phylo_passthrough_auto_threads_example",
                   "beta_phylo_passthrough_bypass_tips_example",
                   "beta_phylo_passthrough_variance_adjusted_example",
                   "beta_phylo_passthrough_min_generalized_unifrac_example",
                   "beta_phylo_passthrough_generalized_unifrac_example"},
     citations |-> <<"lozupone2005unifrac", "lozupone2007unifrac",
                     "hamady2010unifrac", "lozupone2011unifrac",
                     "mcdonald2018unifrac", "chang2011variance",
                     "chen2012genUnifrac", "sfiligoi2022unifrac">>]

\* beta_phylogenetic_meta_passthrough's parameters had inclusive_end been
\* left at its default
beta_phylogenetic_meta_passthrough_parameters_exclusive_end ==
    << <<"metric", Refine(Str, Choices(beta_METRICS_PHYLO_UNIMPL))>>,
       <<"threads", Refine(Int_, Range(Bound(1), None, TRUE, FALSE))
                    \cup Refine(Str, Choices({"auto"}))>>,
       <<"variance_adjusted", Bool>>,
       <<"alpha", Refine(Float, Range(Bound(0), Bound(1), TRUE, FALSE))>>,
       <<"bypass_tips", Bool>>,
       <<"weights", List(Float)>>,
       <<"consolidation", Refine(Str, Choices(CONSOLIDATIONS))>> >>

beta_phylogenetic_meta_passthrough_parameters ==
    << <<"metric", Refine(Str, Choices(beta_METRICS_PHYLO_UNIMPL))>>,
       <<"threads", Refine(Int_, Range(Bound(1), None, TRUE, FALSE))
                    \cup Refine(Str, Choices({"auto"}))>>,
       <<"variance_adjusted", Bool>>,
       <<"alpha", Refine(Float, Range(Bound(0), Bound(1), TRUE, TRUE))>>,
       <<"bypass_tips", Bool>>,
       <<"weights", List(Float)>>,
       <<"consolidation", Refine(Str, Choices(CONSOLIDATIONS))>> >>

beta_phylogenetic_meta_passthrough_registration ==
    [function |-> "beta.beta_phylogenetic_meta_passthrough",
     inputs |-> << <<"tables", List(FeatureTable(Frequency))>>,
                   <<"phylogenies", List(Phylogeny(Rooted))>> >>,
     parameters |-> beta_phylogenetic_meta_passthrough_parameters,
     outputs |-> << <<"distance_matrix", DistanceMatrix>> >>,
     input_descriptions |-> << <<"tables", "The feature tables ...">>,
                               <<"phylogenies", "Phylogenetic trees ...">> >>,
     parameter_descriptions |->
         << <<"metric", "The beta diversity metric to be computed.">>,
            <<"threads", threads_description>>,
            <<"variance_adjusted", "Perform variance adjustment ...">>,
            <<"alpha", "This parameter is only used when ...">>,
            <<"bypass_tips", "In a bifurcating tree ...">>,
            <<"weights", "The weight applied to each tree/table pair. ...">>,
            <<"consolidation", "The matrix consolidation method ...">> >>,
     output_descriptions |->
         << <<"distance_matrix", "The resulting distance matrix.">> >>,
     name |-> "Beta Phylogenetic Meta Passthrough",
     examples |-> {"beta_phylo_meta_passthrough_example",
                   "beta_phylo_meta_weights_example",
                   "beta_phylo_meta_consolidation_example"},
     citations |-> <<"lozupone2005unifrac", "lozupone2007unifrac",
                     "hamady2010unifrac", "lozupone2011unifrac",
                     "mcdonald2018unifrac", "chang2011variance",
                     "chen2012genUnifrac", "lozupone2008metaunifrac">>]

\* the calls had the bray_curtis call been pasted over the jaccard call
Registrations_bray_curtis_twice ==
    <<faith_pd_registration, observed_features_registration,
      pielou_evenness_registration, shannon_entropy_registration,
      bray_curtis_registration, bray_curtis_registration,
      unweighted_unifrac_registration, weighted_unifrac_registration,
      alpha_passthrough_registration, beta_passthrough_registration,
      beta_phylogenetic_passthrough_registration,
      beta_phylogenetic_meta_passthrough_registration>>

\* the register_function calls of the module, top to bottom
Registrations ==
    <<faith_pd_registration, observed_features_registration,
      pielou_evenness_registration, shannon_entropy_registration,
      bray_curtis_registration, jaccard_registration,
      unweighted_unifrac_registration, weighted_unifrac_registration,
      alpha_passthrough_registration, beta_passthrough_registration,
      beta_phylogenetic_passthrough_registration,
      beta_phylogenetic_meta_passthrough_registration>>

NumRegistrations == Len(Registrations)

(***************************************************************************)
(* Membership of a supplied value in a declared type, as the framework     *)
(* decides it.                                                             *)
(***************************************************************************)
\* the primitive's own test: Int and Float refuse booleans, Float takes any
\* real number, an integer included
IsElementOfBase(v, base) ==
    CASE base = "Int" -> v.t = "Int"
      [] base = "Float" -> v.t \in {"Int", "Float"}
      [] base = "Str" -> v.t = "Str"
      [] base = "Bool" -> v.t = "Bool"
      [] OTHER -> FALSE

\* Range.is_element: the value num/den against start and end
InRange(v, r) ==
    /\ r.start.has =>
           IF r.inclusive_start THEN v.num >= r.start.n * v.den
                                ELSE v.num > r.start.n * v.den
    /\ r.end.has =>
           IF r.inclusive_end THEN v.num <= r.end.n * v.den
                              ELSE v.num < r.end.n * v.den

SatisfiesPredicate(v, pred) ==
    CASE pred.tag = "Range" -> InRange(v, pred)
      [] pred.tag = "Choices" -> v.s \in pred.choices
      [] OTHER -> TRUE

IsScalarMember(v, T) ==
    \E m \in T : /\ IsElementOfBase(v, m.base)
                 /\ SatisfiesPredicate(v, m.pred)

\* the members of T that are List[...], as the element type
ElementType(T) == {[m EXCEPT !.collection = ""] : m \in {x \in T : x.collection = "List"}}

ScalarType(T) == {m \in T : m.collection = ""}

\* a parameter the registered function gives the default None may be left out
\* (weights: "Default is to weight each tree/table pair evenly")
HasNoneDefault(name) == name = "weights"

IsParameterMember(name, v, T) ==
    CASE v.t = "None" -> HasNoneDefault(name)
      [] v.t = "List" ->
            \A i \in 1..Len(v.items) : IsScalarMember(v.items[i], ElementType(T))
      [] OTHER -> IsScalarMember(v, ScalarType(T))

IsArtifactMember(v, T) ==
    \E m \in T : m.name = v.name /\ m.field = v.field

IsInputMember(v, T) ==
    IF v.t = "List"
    THEN \A i \in 1..Len(v.items) : IsArtifactMember(v.items[i], ElementType(T))
    ELSE IsArtifactMember(v, ScalarType(T))

(***************************************************************************)
(* The values tried for an argument: the values of the declared base       *)
(* types, in and out of range, and values of other types.                  *)
(***************************************************************************)
SeqsUpTo(S, n) == UNION {[1..k -> S] : k \in 1..n}

IntProbes == {IntV(k) : k \in -1..MaxInt}

FloatProbes == {FloatV(k, Den) : k \in -1..(Den + 1)}

BoolProbes == {BoolV(TRUE), BoolV(FALSE)}

StrProbes(T) == {StrV(c) : c \in UNION {m.pred.choices : m \in T} \cup {"other"}}

ForeignProbes == {BoolV(TRUE), IntV(1)}

ListElementProbes == {FloatV(1, Den), StrV("other")}

ParameterProbes(name, T) ==
    LET bases == {m.base : m \in T}
        list == \E m \in T : m.collection = "List"
    IN  IF list
        THEN {ListV(q) : q \in SeqsUpTo(ListElementProbes, MaxList)}
             \cup {FloatV(1, Den)}
             \cup (IF HasNoneDefault(name) THEN {NoneV} ELSE {})
        ELSE (IF "Int" \in bases THEN IntProbes ELSE {})
             \cup (IF "Float" \in bases THEN FloatProbes ELSE {})
             \cup (IF "Bool" \in bases THEN BoolProbes ELSE {})
             \cup (IF "Str" \in bases THEN StrProbes(T) ELSE {})
             \cup {v \in ForeignProbes : v.t \notin bases}

KnownFields(name) ==
    CASE name = "FeatureTable" -> {"Frequency", "RelativeFrequency", "PresenceAbsence"}
      [] name = "Phylogeny" -> {"Rooted", "Unrooted"}
      [] OTHER -> {""}

InputProbes(T) ==
    LET artifacts == UNION {{ArtifactV(m.name, f) : f \in KnownFields(m.name)} : m \in T}
    IN  IF \E m \in T : m.collection = "List"
        THEN {ListV(q) : q \in SeqsUpTo(artifacts, MaxList)}
        ELSE artifacts

(***************************************************************************)
(* The registered functions.  Each is a thin forwarding call: the          *)
(* arguments it was called with are the arguments of the external          *)
(* computation call.                                                       *)
(***************************************************************************)
NoCall == [function |-> "", inputs |-> <<>>, parameters |-> <<>>]

\* a forwarding call that replaces 'auto' by the host's number of cores
Forwarded_resolving_auto(c) ==
    [function |-> c.function, inputs |-> c.inputs,
     parameters |-> [j \in 1..Len(c.parameters) |->
                        IF c.parameters[j] = StrV("auto") THEN IntV(cores)
                        ELSE c.parameters[j]]]

Forwarded(c) ==
    [function |-> c.function, inputs |-> c.inputs, parameters |-> c.parameters]

(***************************************************************************)
(* The framework's check of an invocation.  The signature is the declared  *)
(* inputs followed by the declared parameters.  The values are checked in  *)
(* that order; the first one that is not a member of its declared type     *)
(* raises TypeError, and the values after it are never looked at.  Only    *)
(* when every value is a member is the registered function called.         *)
(***************************************************************************)
Signature(r) ==
    [i \in 1..(Len(r.inputs) + Len(r.parameters)) |->
        IF i <= Len(r.inputs)
        THEN [kind |-> "input", name |-> r.inputs[i][1], type |-> r.inputs[i][2]]
        ELSE [kind |-> "parameter",
              name |-> r.parameters[i - Len(r.inputs)][1],
              type |-> r.parameters[i - Len(r.inputs)][2]]]

Probes(d) ==
    IF d.kind = "input" THEN InputProbes(d.type)
    ELSE ParameterProbes(d.name, d.type)

IsMember(d, v) ==
    IF d.kind = "input" THEN IsInputMember(v, d.type)
    ELSE IsParameterMember(d.name, v, d.type)

Idle ==
    [method |-> "", outcome |-> "none", at |-> "", value |-> NoneV,
     inputs |-> <<>>, parameters |-> <<>>]

TypeError(r, name, v) ==
    [method |-> r.function, outcome |-> "TypeError", at |-> name, value |-> v,
     inputs |-> <<>>, parameters |-> <<>>]

Accepted(r, args) ==
    [method |-> r.function, outcome |-> "ok", at |-> "", value |-> NoneV,
     inputs |-> SubSeq(args, 1, Len(r.inputs)),
     parameters |-> SubSeq(args, Len(r.inputs) + 1, Len(args))]

RECURSIVE CheckTypes(_, _, _)
\* the outcomes of checking the signature of r from its k-th name on, the
\* values args of the names before it having passed
CheckTypes(r, k, args) ==
    IF k > Len(Signature(r)) THEN {Accepted(r, args)}
    ELSE UNION {IF IsMember(Signature(r)[k], v)
                THEN CheckTypes(r, k + 1, Append(args, v))
                ELSE {TypeError(r, Signature(r)[k].name, v)}
                : v \in Probes(Signature(r)[k])}

Init ==
    /\ pc = 0
    /\ plugin = Plugin
    /\ methods = <<>>
    /\ cores \in 1..MaxCores
    /\ result = Idle
    /\ call = NoCall
    /\ external = NoCall

\* module load had the module's statements run again after the last one
LoadStep_again ==
    /\ methods' = Append(methods, Registrations[(pc % NumRegistrations) + 1])
    /\ pc' = IF pc < NumRegistrations THEN pc + 1 ELSE pc
    /\ UNCHANGED <<plugin, cores, result, call, external>>

\* module load: the next plugin.methods.register_function call
LoadStep ==
    /\ pc < NumRegistrations
    /\ methods' = Append(methods, Registrations[pc + 1])
    /\ pc' = pc + 1
    /\ UNCHANGED <<plugin, cores, result, call, external>>

\* the framework runs method i with the caller's inputs and parameters
Invoke(i) ==
    /\ pc = NumRegistrations
    /\ result.outcome = "none"
    /\ \E o \in CheckTypes(methods[i], 1, <<>>) :
          /\ result' = o
          /\ IF o.outcome = "ok"
             THEN /\ call' = [function |-> methods[i].function,
                              inputs |-> o.inputs, parameters |-> o.parameters]
                  /\ external' = Forwarded(call')
             ELSE UNCHANGED <<call, external>>
    /\ UNCHANGED <<pc, plugin, methods, cores>>

\* the invocation is over: its result or its error has gone to the caller
Return ==
    /\ result.outcome # "none"
    /\ result' = Idle
    /\ call' = NoCall
    /\ external' = NoCall
    /\ UNCHANGED <<pc, plugin, methods, cores>>

Next ==
    \/ LoadStep
    \/ \E i \in 1..Len(methods) : Invoke(i)
    \/ Return

Spec == Init /\ [][Next]_vars

\* the module's statements run one after the other until the last one
FairSpec == Spec /\ WF_vars(LoadStep)

(***************************************************************************)
(* Vocabulary of the properties.                                           *)
(***************************************************************************)
\* the names of a sequence of <<name, value>> pairs
Names(pairs) == {pairs[j][1] : j \in 1..Len(pairs)}

Loaded == pc = NumRegistrations

\* the registered record of a function
RecordOf(f) == CHOOSE r \in {methods[i] : i \in 1..Len(methods)} : r.function = f

\* the value supplied for the parameter called name, ps being the values of
\* the parameters of record r in declared order
ArgNamed(r, ps, name) ==
    ps[CHOOSE j \in 1..Len(r.parameters) : r.parameters[j][1] = name]

ThreadNames == {"threads", "n_jobs"}

\* the thread/job count parameter a record declares
ThreadName(r) == CHOOSE n \in ThreadNames : n \in Names(r.parameters)

DeclaresThreads(r) == Names(r.parameters) \cap ThreadNames # {}

\* an integer >= 1 or the string 'auto'
IsThreadCount(v) ==
    \/ v.t = "Int" /\ v.num >= 1
    \/ v.t = "Str" /\ v.s = "auto"

Executed == call # NoCall

PhyloPassthrough == "beta.beta_phylogenetic_passthrough"

MetaPassthrough == "beta.beta_phylogenetic_meta_passthrough"

(***************************************************************************)
(* C1.  Validation comes before the forwarded function: an invocation in   *)
(* which a supplied value is not a member of its declared type ends in a   *)
(* validation error and the registered function is not executed.  So the   *)
(* function has been executed only for values that all meet their          *)
(* declared constraints; for beta_phylogenetic_passthrough these are: a    *)
(* metric of beta.METRICS['PHYLO']['UNIMPL'], a thread count that is an    *)
(* integer >= 1 or 'auto', booleans for the two flags and a number in      *)
(* [0, 1] for alpha.                                                       *)
(***************************************************************************)
ValidationBeforeForwardedCall ==
    /\ result.outcome = "TypeError" => (call = NoCall /\ external = NoCall)
    /\ Executed =>
          /\ result.outcome = "ok"
          /\ call.function = result.method
          /\ LET r == RecordOf(call.function) IN
                /\ \A j \in 1..Len(r.inputs) :
                      IsInputMember(call.inputs[j], r.inputs[j][2])
                /\ \A j \in 1..Len(r.parameters) :
                      IsParameterMember(r.parameters[j][1], call.parameters[j],
                                        r.parameters[j][2])
    /\ (Executed /\ call.function = PhyloPassthrough) =>
          LET ps == call.parameters IN
             /\ ps[1].t = "Str" /\ ps[1].s \in beta_METRICS_PHYLO_UNIMPL
             /\ IsThreadCount(ps[2])
             /\ ps[3].t = "Bool"
             /\ ps[4].t \in {"Int", "Float"}
             /\ 0 <= ps[4].num /\ ps[4].num <= ps[4].den
             /\ ps[5].t = "Bool"

\* an invocation of beta_phylogenetic_passthrough was refused for its metric
\* and the function did not run
C1Witness ==
    /\ result.outcome = "TypeError"
    /\ result.method = PhyloPassthrough
    /\ result.at = "metric"
    /\ result.value = StrV("other")
    /\ ~Executed

(***************************************************************************)
(* C2.  The thread/job count parameter ('threads' or 'n_jobs') accepts     *)
(* exactly the integers >= 1 and the string 'auto': an accepted invocation *)
(* has such a value, and an invocation refused at that parameter has a     *)
(* value that is not one (0, a negative integer, another string, a value   *)
(* of another type).  Eight methods declare the parameter and all declare  *)
(* it with the same type.                                                  *)
(***************************************************************************)
ThreadCountAcceptedSet ==
    /\ (result.outcome = "ok" /\ DeclaresThreads(RecordOf(result.method))) =>
          LET r == RecordOf(result.method) IN
             IsThreadCount(ArgNamed(r, result.parameters, ThreadName(r)))
    /\ (result.outcome = "TypeError" /\ result.at \in ThreadNames) =>
          ~IsThreadCount(result.value)
    /\ Loaded =>
          /\ {methods[i].function : i \in {j \in 1..Len(methods) : DeclaresThreads(methods[j])}}
             = {"alpha.faith_pd", "beta.bray_curtis", "beta.jaccard",
                "beta.unweighted_unifrac", "beta.weighted_unifrac",
                "beta.beta_passthrough", PhyloPassthrough, MetaPassthrough}
          /\ \A i, j \in 1..Len(methods) :
                (DeclaresThreads(methods[i]) /\ DeclaresThreads(methods[j])) =>
                   ArgNamed(methods[i], [k \in 1..Len(methods[i].parameters) |->
                                            methods[i].parameters[k][2]],
                            ThreadName(methods[i]))
                   = ArgNamed(methods[j], [k \in 1..Len(methods[j].parameters) |->
                                              methods[j].parameters[k][2]],
                              ThreadName(methods[j]))

\* faith_pd was refused for threads = 0
C2Witness ==
    /\ result.outcome = "TypeError"
    /\ result.method = "alpha.faith_pd"
    /\ result.at = "threads"
    /\ result.value = IntV(0)

(***************************************************************************)
(* C3.  The thread/job count may not exceed the number of available        *)
(* physical cores: the external computation never runs with an integer     *)
(* thread/job count larger than the host's cores.                          *)
(***************************************************************************)
ThreadCountWithinCores ==
    (external # NoCall /\ DeclaresThreads(RecordOf(external.function))) =>
       LET r == RecordOf(external.function)
           v == ArgNamed(r, external.parameters, ThreadName(r))
       IN  v.t = "Int" => v.num <= cores

(***************************************************************************)
(* C4.  The thread/job count is forwarded unmodified: in every accepted    *)
(* invocation of a method that declares 'threads' or 'n_jobs', the value   *)
(* the external computation call receives is the value the caller          *)
(* supplied, 'auto' included.                                              *)
(***************************************************************************)
ThreadCountForwardedUnmodified ==
    (result.outcome = "ok" /\ DeclaresThreads(RecordOf(result.method))) =>
       LET r == RecordOf(result.method) IN
          /\ external.function = result.method
          /\ ArgNamed(r, external.parameters, ThreadName(r))
             = ArgNamed(r, result.parameters, ThreadName(r))

\* bray_curtis ran with n_jobs = 'auto'
C4Witness ==
    /\ result.outcome = "ok"
    /\ result.method = "beta.bray_curtis"
    /\ result.parameters[1] = StrV("auto")
    /\ external.function = "beta.bray_curtis"

(***************************************************************************)
(* C5.  Every registration record documents what it declares: the names    *)
(* of its parameters are the names of its parameter descriptions (none of  *)
(* either when the method has no parameters), the names of its inputs are  *)
(* the names of its input descriptions, and the names of its outputs are   *)
(* the names of its output descriptions.                                   *)
(***************************************************************************)
DescriptionsMatchDeclarations ==
    \A i \in 1..Len(methods) :
       /\ Names(methods[i].parameters) = Names(methods[i].parameter_descriptions)
       /\ Names(methods[i].inputs) = Names(methods[i].input_descriptions)
       /\ Names(methods[i].outputs) = Names(methods[i].output_descriptions)

\* all records are registered, one without parameters and one with seven
C5Witness ==
    /\ Loaded
    /\ \E i \in 1..Len(methods) :
          Len(methods[i].parameters) = 0 /\ Len(methods[i].parameter_descriptions) = 0
    /\ \E i \in 1..Len(methods) : Cardinality(Names(methods[i].parameters)) = 7

(***************************************************************************)
(* C6.  Registration records are static: once module load has completed,   *)
(* no step (an invocation, accepted or refused, or its return) changes     *)
(* the registered records or the plugin descriptor.                        *)
(***************************************************************************)
RegistryStaticAfterLoad ==
    [][Loaded => (methods' = methods /\ plugin' = plugin)]_vars

\* a refused invocation after load, the registry being what load left
C6Witness ==
    /\ Loaded
    /\ result.outcome = "TypeError"
    /\ Len(methods) = NumRegistrations
    /\ plugin.name = "diversity-lib"

(***************************************************************************)
(* C7.  Every registered method declares exactly one output: the alpha     *)
(* methods a SampleData[AlphaDiversity] vector, the beta methods a         *)
(* DistanceMatrix; and the registered methods are these five alpha and     *)
(* seven beta methods.                                                     *)
(***************************************************************************)
AlphaFunctions ==
    {"alpha.faith_pd", "alpha.observed_features", "alpha.pielou_evenness",
     "alpha.shannon_entropy", "alpha.alpha_passthrough"}

BetaFunctions ==
    {"beta.bray_curtis", "beta.jaccard", "beta.unweighted_unifrac",
     "beta.weighted_unifrac", "beta.beta_passthrough", PhyloPassthrough,
     MetaPassthrough}

OneOutputByFamily ==
    /\ \A i \in 1..Len(methods) :
          /\ Len(methods[i].outputs) = 1
          /\ methods[i].function \in AlphaFunctions =>
                methods[i].outputs[1][2] = SampleData(AlphaDiversity)
          /\ methods[i].function \in BetaFunctions =>
                methods[i].outputs[1][2] = DistanceMatrix
          /\ methods[i].function \in AlphaFunctions \cup BetaFunctions
    /\ Loaded =>
          {methods[i].function : i \in 1..Len(methods)} = AlphaFunctions \cup BetaFunctions

\* all twelve are registered: bray_curtis with a distance matrix, faith_pd
\* with a vector
C7Witness ==
    /\ Loaded
    /\ RecordOf("beta.bray_curtis").outputs = << <<"distance_matrix", DistanceMatrix>> >>
    /\ RecordOf("alpha.faith_pd").outputs[1][1] = "vector"

(***************************************************************************)
(* C8.  The 'alpha' parameter of beta_phylogenetic_passthrough and of      *)
(* beta_phylogenetic_meta_passthrough is bounded to [0, 1]: an accepted    *)
(* invocation has 0 <= alpha <= 1, and a number refused at alpha is below  *)
(* 0 or above 1 (so 0 and 1 themselves are accepted).                      *)
(***************************************************************************)
AlphaInClosedUnitInterval ==
    /\ (result.outcome = "ok" /\ result.method \in {PhyloPassthrough, MetaPassthrough}) =>
          LET v == ArgNamed(RecordOf(result.method), result.parameters, "alpha") IN
             /\ v.t \in {"Int", "Float"}
             /\ 0 <= v.num /\ v.num <= v.den
    /\ (/\ result.outcome = "TypeError"
        /\ result.method \in {PhyloPassthrough, MetaPassthrough}
        /\ result.at = "alpha"
        /\ result.value.t \in {"Int", "Float"}) =>
          (result.value.num < 0 \/ result.value.num > result.value.den)

\* beta_phylogenetic_meta_passthrough ran with alpha = 1.0
C8Witness ==
    /\ result.outcome = "ok"
    /\ result.method = MetaPassthrough
    /\ result.parameters[4] = FloatV(Den, Den)
    /\ Executed

(***************************************************************************)
(* C9.  In beta_phylogenetic_meta_passthrough one weight goes with each    *)
(* tree/table pair: whenever the forwarded function runs with weights      *)
(* supplied, there are as many weights as tables and as phylogenies.       *)
(***************************************************************************)
WeightsMatchTablesAndPhylogenies ==
    (Executed /\ call.function = MetaPassthrough
       /\ ArgNamed(RecordOf(MetaPassthrough), call.parameters, "weights").t = "List") =>
       LET w == ArgNamed(RecordOf(MetaPassthrough), call.parameters, "weights") IN
          /\ Len(w.items) = Len(call.inputs[1].items)
          /\ Len(w.items) = Len(call.inputs[2].items)

(***************************************************************************)
(* C10.  Module load is one sequential pass against the one plugin object: *)
(* the register_function calls happen in source order, each once; during   *)
(* load the registered records only grow; and load ends with exactly       *)
(* twelve records (four alpha, four beta, four passthrough), each bound    *)
(* to a different function.                                                *)
(***************************************************************************)
SourceOrder ==
    <<"alpha.faith_pd", "alpha.observed_features", "alpha.pielou_evenness",
      "alpha.shannon_entropy",
      "beta.bray_curtis", "beta.jaccard", "beta.unweighted_unifrac",
      "beta.weighted_unifrac",
      "alpha.alpha_passthrough", "beta.beta_passthrough", PhyloPassthrough,
      MetaPassthrough>>

RegisteredInSourceOrder ==
    /\ plugin = Plugin
    /\ pc \in 0..Len(SourceOrder)
    /\ [i \in 1..Len(methods) |-> methods[i].function] = SubSeq(SourceOrder, 1, pc)

TwelveDistinct ==
    /\ Len(methods) = 12
    /\ Cardinality({methods[i].function : i \in 1..Len(methods)}) = 12
    /\ Cardinality({i \in 1..4 : methods[i].function \in AlphaFunctions}) = 4
    /\ Cardinality({i \in 5..8 : methods[i].function \in BetaFunctions}) = 4
    /\ \A i \in 9..12 :
          methods[i].function \in {"alpha.alpha_passthrough", "beta.beta_passthrough",
                                   PhyloPassthrough, MetaPassthrough}

LoadIsOneSequentialPass ==
    /\ []RegisteredInSourceOrder
    /\ [][/\ Len(methods') >= Len(methods)
          /\ SubSeq(methods', 1, Len(methods)) = methods
          /\ pc' \in {pc, pc + 1}]_vars
    /\ [](Loaded => TwelveDistinct)
    /\ <>(Loaded /\ TwelveDistinct)

\* load is over: the twelfth call has been made and nothing has been invoked
C10Witness ==
    /\ pc = 12
    /\ Len(methods) = 12
    /\ methods[12].function = MetaPassthrough
    /\ result.outcome = "none"

(***************************************************************************)
(* C11.  The 'pseudocount' parameter of beta_passthrough accepts exactly   *)
(* the integers >= 1: an accepted invocation has such a pseudocount, and   *)
(* a value refused at pseudocount is not one (0, a negative integer, a     *)
(* value of another type) and is refused before the forwarded function     *)
(* runs.  No integer >= 1 is refused, however large: there is no upper     *)
(* bound.                                                                  *)
(***************************************************************************)
BetaPassthrough == "beta.beta_passthrough"

PseudocountAtLeastOne ==
    /\ (result.outcome = "ok" /\ result.method = BetaPassthrough) =>
          LET v == ArgNamed(RecordOf(BetaPassthrough), result.parameters, "pseudocount") IN
             v.t = "Int" /\ v.num >= 1
    /\ (/\ result.outcome = "TypeError"
        /\ result.method = BetaPassthrough
        /\ result.at = "pseudocount") =>
          /\ ~(result.value.t = "Int" /\ result.value.num >= 1)
          /\ ~Executed

\* beta_passthrough ran with the largest pseudocount tried
C11Witness ==
    /\ result.outcome = "ok"
    /\ result.method = BetaPassthrough
    /\ result.parameters[2] = IntV(MaxInt)
    /\ Executed

(***************************************************************************)
(* C12.  beta_phylogenetic_passthrough and                                 *)
(* beta_phylogenetic_meta_passthrough validate their five shared           *)
(* parameters (metric, threads, variance_adjusted, alpha, bypass_tips)     *)
(* identically: the values one of them has accepted are members of the     *)
(* other's declared types, and a value one of them has refused at a        *)
(* shared parameter is not a member of the other's declared type for it.   *)
(***************************************************************************)
SharedParameters == {"metric", "threads", "variance_adjusted", "alpha", "bypass_tips"}

\* the other one of the two phylogenetic passthrough methods
OtherPassthrough(f) == IF f = PhyloPassthrough THEN MetaPassthrough ELSE PhyloPassthrough

\* the type record r declares for the parameter called name
TypeNamed(r, name) ==
    r.parameters[CHOOSE j \in 1..Len(r.parameters) : r.parameters[j][1] = name][2]

SharedParametersValidatedIdentically ==
    /\ (result.outcome = "ok" /\ result.method \in {PhyloPassthrough, MetaPassthrough}) =>
          \A n \in SharedParameters :
             IsParameterMember(n,
                 ArgNamed(RecordOf(result.method), result.parameters, n),
                 TypeNamed(RecordOf(OtherPassthrough(result.method)), n))
    /\ (/\ result.outcome = "TypeError"
        /\ result.method \in {PhyloPassthrough, MetaPassthrough}
        /\ result.at \in SharedParameters) =>
          ~IsParameterMember(result.at, result.value,
               TypeNamed(RecordOf(OtherPassthrough(result.method)), result.at))

\* beta_phylogenetic_passthrough refused an alpha above 1
C12Witness ==
    /\ result.outcome = "TypeError"
    /\ result.method = PhyloPassthrough
    /\ result.at = "alpha"
    /\ result.value = FloatV(Den + 1, Den)

(***************************************************************************)
(* C13.  Which feature tables a method takes.  Every method accepts        *)
(* FeatureTable[Frequency].  FeatureTable[PresenceAbsence] is accepted     *)
(* only by faith_pd, observed_features, jaccard and unweighted_unifrac;    *)
(* pielou_evenness, shannon_entropy, bray_curtis and weighted_unifrac      *)
(* accept Frequency and RelativeFrequency and refuse PresenceAbsence; the  *)
(* four passthrough methods accept Frequency only.  A method has run only  *)
(* on tables of a kind it may take, and a table it has refused is of a     *)
(* kind it is not said to accept.                                          *)
(***************************************************************************)
PresenceAbsenceMethods ==
    {"alpha.faith_pd", "alpha.observed_features", "beta.jaccard",
     "beta.unweighted_unifrac"}

AbundanceMethods ==
    {"alpha.pielou_evenness", "alpha.shannon_entropy", "beta.bray_curtis",
     "beta.weighted_unifrac"}

PassthroughMethods ==
    {"alpha.alpha_passthrough", BetaPassthrough, PhyloPassthrough, MetaPassthrough}

\* the table kinds method f is said to accept
MustAccept(f) ==
    CASE f \in PresenceAbsenceMethods -> {"Frequency", "PresenceAbsence"}
      [] f \in AbundanceMethods -> {"Frequency", "RelativeFrequency"}
      [] OTHER -> {"Frequency"}

\* the table kinds method f may accept
MayAccept(f) ==
    CASE f \in PresenceAbsenceMethods -> {"Frequency", "RelativeFrequency", "PresenceAbsence"}
      [] f \in AbundanceMethods -> {"Frequency", "RelativeFrequency"}
      [] OTHER -> {"Frequency"}

\* the kinds of the table or tables in an input value
TableKinds(v) ==
    IF v.t = "List" THEN {v.items[j].field : j \in 1..Len(v.items)} ELSE {v.field}

TableTypesByMethod ==
    /\ Loaded =>
          {methods[i].function : i \in 1..Len(methods)}
          = PresenceAbsenceMethods \cup AbundanceMethods \cup PassthroughMethods
    /\ result.outcome = "ok" =>
          TableKinds(result.inputs[1]) \subseteq MayAccept(result.method)
    /\ (result.outcome = "TypeError" /\ result.at \in {"table", "tables"}) =>
          ~(TableKinds(result.value) \subseteq MustAccept(result.method))

\* pielou_evenness refused a FeatureTable[PresenceAbsence]
C13Witness ==
    /\ result.outcome = "TypeError"
    /\ result.method = "alpha.pielou_evenness"
    /\ result.at = "table"
    /\ result.value = ArtifactV("FeatureTable", "PresenceAbsence")
    /\ ~Executed

=============================================================================
